---- MODULE Spec2Model ----
(***************************************************************************)
(* Product listing: the two filtering engines (client-side, server-side),  *)
(* the strategy selector (FilteringService), the product list component    *)
(* that drives them, and the server's filterProducts controller.           *)
(*                                                                         *)
(* Strings are sequences of one-character strings, so that toLowerCase,    *)
(* includes and $regex are computed character by character.  A nullable    *)
(* value is a sequence of length at most one: Null is null, Some(x) is x.  *)
(* Product lists hold product ids; Product(id) is the immutable record.    *)
(***************************************************************************)
EXTENDS Integers, Sequences, FiniteSets, TLC

\* ------------------------------------------------------------------------
\* Nullable values and small helpers
\* ------------------------------------------------------------------------
Null == <<>>

Some(x) == <<x>>

Min(a, b) == IF a <= b THEN a ELSE b

Max(a, b) == IF a >= b THEN a ELSE b

\* Array.prototype.slice(start, end), 0-based, end exclusive; a negative index
\* counts from the end of the array.
slice(arr, start, end) ==
  LET from == IF start < 0 THEN Max(Len(arr) + start, 0) ELSE Min(start, Len(arr))
      to == IF end < 0 THEN Max(Len(arr) + end, 0) ELSE Min(end, Len(arr))
  IN  [k \in 1..Max(0, to - from) |-> arr[from + k]]

\* ------------------------------------------------------------------------
\* Strings
\* ------------------------------------------------------------------------
UpperChars == <<"A", "B", "C", "D", "E", "F", "G", "H", "I", "J", "K", "L", "M", "N", "O", "P", "Q", "R", "S", "T", "U", "V", "W", "X", "Y", "Z">>

LowerChars == <<"a", "b", "c", "d", "e", "f", "g", "h", "i", "j", "k", "l", "m", "n", "o", "p", "q", "r", "s", "t", "u", "v", "w", "x", "y", "z">>

toLowerCaseChar(c) ==
  IF \E k \in 1..Len(UpperChars) : UpperChars[k] = c
    THEN LowerChars[CHOOSE k \in 1..Len(UpperChars) : UpperChars[k] = c]
    ELSE c

toLowerCase(str) == [k \in 1..Len(str) |-> toLowerCaseChar(str[k])]

\* String.prototype.startsWith: str begins with sub.
includes_startsWith(str, sub) ==
  /\ Len(sub) <= Len(str)
  /\ \A k \in 1..Len(sub) : str[k] = sub[k]

\* String.prototype.includes: str has sub as a contiguous substring.
includes(str, sub) ==
  \E off \in 0..(Len(str) - Len(sub)) :
    \A k \in 1..Len(sub) : str[off + k] = sub[k]

\* { field: { $regex: pattern, $options: 'i' } } for patterns made of literal
\* characters and the wildcard "." : an unanchored, case-insensitive match.
regexTest(str, pattern) ==
  \E off \in 0..(Len(str) - Len(pattern)) :
    \A k \in 1..Len(pattern) :
      \/ pattern[k] = "."
      \/ toLowerCaseChar(str[off + k]) = toLowerCaseChar(pattern[k])

\* ------------------------------------------------------------------------
\* The catalogue
\* ------------------------------------------------------------------------
Electronics == <<"E", "l", "e", "c", "t", "r", "o", "n", "i", "c", "s">>

Fashion == <<"F", "a", "s", "h", "i", "o", "n">>

PRODUCTS ==
  <<
    [id |-> 1, name |-> <<"L", "a", "p", "t", "o", "p">>,
     category |-> Electronics, price |-> 999,
     description |-> <<"H", "i", "g", "h", "-", "e", "n", "d", " ", "l", "a", "p", "t", "o", "p">>],
    [id |-> 2, name |-> <<"P", "h", "o", "n", "e">>,
     category |-> Electronics, price |-> 699,
     description |-> <<"S", "m", "a", "r", "t", "p", "h", "o", "n", "e">>],
    [id |-> 3, name |-> <<"S", "h", "o", "e", "s">>,
     category |-> Fashion, price |-> 99,
     description |-> <<"R", "u", "n", "n", "i", "n", "g", " ", "s", "h", "o", "e", "s">>],
    [id |-> 4, name |-> <<"T", "-", "s", "h", "i", "r", "t">>,
     category |-> Fashion, price |-> 19,
     description |-> <<"C", "o", "t", "t", "o", "n", " ", "t", "-", "s", "h", "i", "r", "t">>],
    [id |-> 5, name |-> <<"S", "u", "n", "g", "l", "a", "s", "s", "e", "s">>,
     category |-> Fashion, price |-> 49,
     description |-> <<"U", "V", " ", "p", "r", "o", "t", "e", "c", "t", "i", "o", "n">>],
    [id |-> 6, name |-> <<"H", "e", "a", "d", "p", "h", "o", "n", "e", "s">>,
     category |-> Electronics, price |-> 199,
     description |-> <<"N", "o", "i", "s", "e", "-", "c", "a", "n", "c", "e", "l", "l", "i", "n", "g">>],
    [id |-> 7, name |-> <<"B", "a", "c", "k", "p", "a", "c", "k">>,
     category |-> Fashion, price |-> 79,
     description |-> <<"W", "a", "t", "e", "r", "p", "r", "o", "o", "f">>],
    [id |-> 8, name |-> <<"W", "a", "t", "c", "h">>,
     category |-> Fashion, price |-> 149,
     description |-> <<"A", "n", "a", "l", "o", "g", " ", "w", "a", "t", "c", "h">>],
    [id |-> 9, name |-> <<"C", "a", "m", "e", "r", "a">>,
     category |-> Electronics, price |-> 299,
     description |-> <<"D", "S", "L", "R", " ", "c", "a", "m", "e", "r", "a">>],
    [id |-> 10, name |-> <<"T", "a", "b", "l", "e", "t">>,
     category |-> Electronics, price |-> 399,
     description |-> <<"L", "a", "r", "g", "e", " ", "s", "c", "r", "e", "e", "n">>]
  >>

\* The switching threshold (environment.clientSidePaginationTreshold).
treshold == 100

\* The largest collection the data source holds in this model.
MaxProducts == treshold + 1

\* The document with the given id: the mock catalogue, repeated with fresh ids.
Product(id) ==
  [PRODUCTS[((id - 1) % Len(PRODUCTS)) + 1] EXCEPT !.id = id]

\* The collections the data source may hold: the mock catalogue, a collection
\* of exactly treshold documents, and one of treshold + 1 documents.
Collection(n) == [k \in 1..n |-> k]

Collections == {Collection(Len(PRODUCTS)), Collection(treshold), Collection(MaxProducts)}

\* ------------------------------------------------------------------------
\* Inputs: search terms, filters, pages
\* ------------------------------------------------------------------------
SearchTerms == {<<>>, <<"p", "h", "o", "n", "e">>, <<"F", "A">>, <<"o", ".", "e">>}

\* { min, max } of a PriceRange; a bound is Null or Some(number).
PriceRange(min, max) == [min |-> min, max |-> max]

\* A Filter (core/models/filter.model); greater and smaller are always null
\* in this application and are left out.
Filter(type, value, range, multiselect) ==
  [type |-> type, value |-> value, range |-> range, multiselect |-> multiselect]

\* Object.values(map).some(selected => selected), map a sequence of <<key, flag>>.
someSelected(map) == \E k \in 1..Len(map) : map[k][2]

\* The keys of map whose flag is set, in order.
selectedKeys(map) ==
  LET keep == SelectSeq(map, LAMBDA e : e[2])
  IN  [k \in 1..Len(keep) |-> keep[k][1]]

\* ------------------------------------------------------------------------
\* ClientSideFilteringService (the In-Memory engine)
\* ------------------------------------------------------------------------
\* applyCategoryFilter keeping the selected categories even when none is.
applyCategoryFilter_always(filteredProducts, categoriesSelected) ==
  SelectSeq(filteredProducts,
    LAMBDA id : \E k \in 1..Len(categoriesSelected) :
                   /\ categoriesSelected[k][2]
                   /\ categoriesSelected[k][1] = Product(id).category)

applyCategoryFilter(filteredProducts, categoriesSelected) ==
  IF someSelected(categoriesSelected)
    THEN SelectSeq(filteredProducts,
           LAMBDA id : \E k \in 1..Len(categoriesSelected) :
                          /\ categoriesSelected[k][2]
                          /\ categoriesSelected[k][1] = Product(id).category)
    ELSE filteredProducts

applyPriceRangeFilter(filteredProducts, priceRangeSelected) ==
  IF priceRangeSelected.min # Null /\ priceRangeSelected.max # Null
    THEN SelectSeq(filteredProducts,
           LAMBDA id : /\ Product(id).price >= priceRangeSelected.min[1]
                       /\ Product(id).price <= priceRangeSelected.max[1])
    ELSE filteredProducts

\* One iteration of the loop of applyFilters: the switch on filter.key.
applyFilter(filteredProducts, filter) ==
  CASE filter.key = "multiselect" ->
         IF filter.value.multiselect # Null
           THEN applyCategoryFilter(filteredProducts, filter.value.multiselect[1])
           ELSE filteredProducts
    [] filter.key = "range" ->
         IF filter.value.range # Null
           THEN applyPriceRangeFilter(filteredProducts, filter.value.range[1])
           ELSE filteredProducts
    [] OTHER -> filteredProducts

RECURSIVE applyFilters(_, _)
applyFilters(filteredProducts, filters) ==
  IF filters = <<>>
    THEN filteredProducts
    ELSE applyFilters(applyFilter(filteredProducts, Head(filters)), Tail(filters))

\* The predicate of search: name, category or description includes the term.
matchesTerm(p, term) ==
  \/ includes(toLowerCase(p.name), toLowerCase(term))
  \/ includes(toLowerCase(p.category), toLowerCase(term))
  \/ includes(toLowerCase(p.description), toLowerCase(term))

\* matchesTerm over the catalogue, evaluated once per term.
searchTable ==
  [term \in SearchTerms |-> [k \in 1..Len(PRODUCTS) |-> matchesTerm(PRODUCTS[k], term)]]

search(filteredProducts, term) ==
  SelectSeq(filteredProducts,
    LAMBDA id : searchTable[term][((id - 1) % Len(PRODUCTS)) + 1])

\* paginate taking the page after the one asked for.
paginate_fromPage(filteredProducts, page, pageSize) ==
  LET startIndex == page * pageSize
  IN  slice(filteredProducts, startIndex, startIndex + pageSize)

\* paginate taking one element more than pageSize.
paginate_oneMore(filteredProducts, page, pageSize) ==
  LET startIndex == (page - 1) * pageSize
  IN  slice(filteredProducts, startIndex, startIndex + pageSize + 1)

paginate(filteredProducts, page, pageSize) ==
  LET startIndex == (page - 1) * pageSize
  IN  slice(filteredProducts, startIndex, startIndex + pageSize)

\* applyFiltersAndSearch paginating before it filters and searches.
clientApplyFiltersAndSearch_paginateFirst(products, searchTerm, filters, pageNumber, pageSize) ==
  LET filtered == search(applyFilters(paginate(products, pageNumber, pageSize), filters),
                         searchTerm)
  IN  [filteredProducts |-> filtered,
       products |-> filtered,
       totalItems |-> Len(filtered)]

\* applyFiltersAndSearch of the client-side engine over its products: the new
\* filteredProducts and the value it emits.
clientApplyFiltersAndSearch(products, searchTerm, filters, pageNumber, pageSize) ==
  LET filtered == search(applyFilters(products, filters), searchTerm)
      filteredProductsCount == Len(filtered)
  IN  [filteredProducts |-> filtered,
       products |-> paginate(filtered, pageNumber, pageSize),
       totalItems |-> filteredProductsCount]

\* ------------------------------------------------------------------------
\* ServerSideFilteringService (the Remote engine): the request payload
\* ------------------------------------------------------------------------
\* filters.map(filter => ({ key, values: filter.value.value ? ... : [], type, logic: 'or' }))
payloadFilter(filter) ==
  [key |-> filter.key,
   values |-> IF filter.value.value # Null THEN filter.value.value[1] ELSE <<>>,
   type |-> filter.value.type,
   logic |-> "or"]

\* The payload without the search term.
buildPayload_noTerm(searchTerm, filters, pageNumber, pageSize) ==
  [searchTerm |-> <<>>,
   filters |-> [logic |-> "and",
                filters |-> [k \in 1..Len(filters) |-> payloadFilter(filters[k])]],
   currentPage |-> pageNumber,
   pageSize |-> pageSize]

buildPayload(searchTerm, filters, pageNumber, pageSize) ==
  [searchTerm |-> searchTerm,
   filters |-> [logic |-> "and",
                filters |-> [k \in 1..Len(filters) |-> payloadFilter(filters[k])]],
   currentPage |-> pageNumber,
   pageSize |-> pageSize]

\* ------------------------------------------------------------------------
\* The server: filterProducts over the Product collection
\* ------------------------------------------------------------------------
\* The paths of the Product schema and their types.
NumberPaths == {"price"}

StringPaths == {"name", "description", "category", "imgUrl"}

\* NaN, the value of parseFloat on anything that does not start with a number.
NaN == Null

DigitChars == <<"0", "1", "2", "3", "4", "5", "6", "7", "8", "9">>

isDigit(c) == \E d \in 1..Len(DigitChars) : DigitChars[d] = c

digitValue(c) == (CHOOSE d \in 1..Len(DigitChars) : DigitChars[d] = c) - 1

RECURSIVE digitsValue(_, _)
digitsValue(str, acc) ==
  IF str = <<>> \/ ~isDigit(Head(str))
    THEN acc
    ELSE digitsValue(Tail(str), 10 * acc + digitValue(Head(str)))

\* parseFloat(values[index]) for a 0-based index: NaN when the element is
\* missing or has no leading digits, else Some(the number its digits spell).
parseFloat(values, index) ==
  IF index + 1 > Len(values) THEN NaN
  ELSE IF values[index + 1] = <<>> \/ ~isDigit(values[index + 1][1]) THEN NaN
  ELSE Some(digitsValue(values[index + 1], 0))

\* query[filterKey] for one filter of the payload.
queryCondition(filter) ==
  IF filter.type = "range"
    THEN [op |-> "range", gte |-> parseFloat(filter.values, 0),
          lte |-> parseFloat(filter.values, 1)]
    ELSE [op |-> IF filter.logic = "or" THEN "$in" ELSE "$all",
          values |-> filter.values]

\* The query object after the forEach: the conditions by key, a later filter
\* on the same key replacing an earlier one.
queryConditions(filters) ==
  LET keys == {filters[k].key : k \in 1..Len(filters)}
      last(key) == CHOOSE k \in 1..Len(filters) :
                     /\ filters[k].key = key
                     /\ \A j \in (k + 1)..Len(filters) : filters[j].key # key
  IN  [key \in keys |-> queryCondition(filters[last(key)])]

\* Casting a condition to its path's type fails (CastError): a range bound
\* that is NaN on a Number path, or a listed value that is no number.
castFails(key, cond) ==
  /\ key \in NumberPaths
  /\ IF cond.op = "range"
       THEN cond.gte = NaN \/ cond.lte = NaN
       ELSE \E k \in 1..Len(cond.values) : parseFloat(cond.values, k - 1) = NaN

\* A document satisfies the condition on one of its own paths.
satisfies(doc, key, cond) ==
  CASE key = "price" /\ cond.op = "range" ->
         doc.price >= cond.gte[1] /\ doc.price <= cond.lte[1]
    [] key = "price" /\ cond.op # "range" ->
         \E k \in 1..Len(cond.values) : parseFloat(cond.values, k - 1) = Some(doc.price)
    [] key \in {"name", "description", "category"} /\ cond.op = "$in" ->
         \E k \in 1..Len(cond.values) : cond.values[k] = doc[key]
    [] OTHER -> FALSE

\* The $or of the three $regex conditions, present only for a truthy searchTerm.
matchesRegex(doc, searchTerm) ==
  \/ regexTest(doc.name, searchTerm)
  \/ regexTest(doc.description, searchTerm)
  \/ regexTest(doc.category, searchTerm)

\* matchesRegex over the catalogue, evaluated once per term.
regexTable ==
  [term \in SearchTerms |-> [k \in 1..Len(PRODUCTS) |-> matchesRegex(PRODUCTS[k], term)]]

\* The documents of the collection that match the query.  A condition on a
\* key that is no path of the schema is either removed from the query
\* (strictQuery) or kept, and then no document has the field.
findMatching(collection, body, strictQuery) ==
  LET conds == queryConditions(body.filters.filters)
      known == DOMAIN conds \cap (NumberPaths \cup StringPaths)
      unknown == DOMAIN conds \ known
  IN  IF unknown # {} /\ ~strictQuery
        THEN <<>>
        ELSE SelectSeq(collection,
               LAMBDA id :
                 /\ body.searchTerm = <<>>
                      \/ regexTable[body.searchTerm][((id - 1) % Len(PRODUCTS)) + 1]
                 /\ \A key \in known : satisfies(Product(id), key, conds[key]))

\* find(query).skip(skip).limit(pageSize): limit(0) sets no limit.
skipLimit(docs, skip, limit) ==
  IF limit = 0 THEN slice(docs, skip, Len(docs)) ELSE slice(docs, skip, skip + limit)

\* The body of the try block for one setting of strictQuery: the 200 response,
\* or the 500 response of the catch block.
filterProducts(collection, body, strictQuery) ==
  LET conds == IF body.filters.filters = <<>> THEN <<>>
               ELSE queryConditions(body.filters.filters)
      skip == (body.currentPage - 1) * body.pageSize
      matching == findMatching(collection, body, strictQuery)
  IN  IF \/ \E key \in DOMAIN conds : castFails(key, conds[key])
         \/ skip < 0
        THEN [status |-> 500]
        ELSE [status |-> 200,
              products |-> skipLimit(matching, skip, body.pageSize),
              totalItems |-> Len(matching)]

\* The responses the server can give to one request.
filterProductsOutcomes(collection, body) ==
  {filterProducts(collection, body, strictQuery) : strictQuery \in BOOLEAN}

\* ------------------------------------------------------------------------
\* State
\* ------------------------------------------------------------------------
VARIABLES
  collection,   \* the data source: the ids of the stored documents, in order
  strictQuery,  \* the data source: whether Mongoose drops conditions on unknown paths
  net,          \* HTTP exchanges in flight, each with the subscriber it returns to
  strategy,     \* FilteringService.strategy: "client" or "server"
  clientSide,   \* ClientSideFilteringService: products, filteredProducts
  serverSide,   \* ServerSideFilteringService: products, filteredProducts, current*
  component,    \* ProductListComponent: its fields and its place in ngOnInit
  history,      \* what was called, forwarded, emitted and displayed so far
  query,        \* the QueryState under test when the engines are called directly
  paginationComponent,   \* PaginationComponent: its inputs and its last emission
  filterComponent        \* FilterComponent: its options, selection and flag

vars == <<collection, strictQuery, net, strategy, clientSide, serverSide, component, history, query,
          paginationComponent, filterComponent>>

\* The two components of the shared module.
controls == <<paginationComponent, filterComponent>>

\* Bounds of the model.
MaxItems == 12

MaxEvents == 2

MaxInFlight == 2

MaxPage == 2

MaxCalls == 3

\* The arguments of applyFiltersAndSearch.
QueryState(searchTerm, filters, pageNumber, pageSize) ==
  [searchTerm |-> searchTerm, filters |-> filters,
   pageNumber |-> pageNumber, pageSize |-> pageSize]

NoQuery == QueryState(<<>>, <<>>, 1, 1)

InitClientSide == [products |-> <<>>, filteredProducts |-> <<>>]

InitServerSide ==
  [products |-> <<>>, filteredProducts |-> <<>>,
   currentSearchTerm |-> <<>>, currentFilters |-> <<>>,
   currentPage |-> 1, pageSize |-> 10]

InitComponent ==
  [products |-> <<>>, currentPageProducts |-> <<>>,
   currentPage |-> 1, pageSize |-> 10, searchTerm |-> <<>>, totalItems |-> 0,
   categories |-> <<>>, categoriesSelected |-> Some(<<>>),
   priceRangeSelected |-> Some(PriceRange(Null, Null)),
   pc |-> "constructed"]

\* The record of a run.  issued numbers the calls made on the selector;
\* lastCall is the latest call as its caller made it and received the same call
\* as the engine got it; emitted is the latest value an engine handed to its
\* subscriber; answered are the calls whose value has been emitted, shown the
\* call whose value the component displays; clientResult and serverResult are
\* each engine's latest applyFiltersAndSearch emission; lastCount is the count
\* switchStrategy last returned; lastEvent is the latest user event.
InitHistory ==
  [issued |-> 0, lastCall |-> Null, received |-> Null, emitted |-> Null,
   answered |-> {}, shown |-> 0, clientResult |-> Null, serverResult |-> Null,
   lastCount |-> Null, lastEvent |-> Null, events |-> 0]

\* An HTTP request of ProductService, on its way to the server.  call is the
\* engine call that subscribed to it; tap marks the count request of
\* switchStrategy, whose response also passes through the selector's tap.
Request(id, url, body, call) ==
  [id |-> id, url |-> url, body |-> body, stage |-> "request",
   response |-> Null, call |-> call, tap |-> FALSE]

\* ------------------------------------------------------------------------
\* FilteringService (the strategy selector): each method hands the call to
\* this.strategy with the arguments it was given.
\* ------------------------------------------------------------------------
EngineCall(engine, op, args) == [engine |-> engine, op |-> op, args |-> args]

\* The switch made at the threshold already.
selectStrategy_atLeast(count) == IF count >= treshold THEN "server" ELSE "client"

selectStrategy(count) == IF count > treshold THEN "server" ELSE "client"

selectorGetProductsCount(active) == EngineCall(active, "getProductsCount", Null)

selectorGetProducts(active) == EngineCall(active, "getProducts", Null)

selectorApplyFiltersAndSearch(active, searchTerm, filters, pageNumber, pageSize) ==
  EngineCall(active, "applyFiltersAndSearch",
             QueryState(searchTerm, filters, pageNumber, pageSize))

selectorApplyFilters(active, filters) ==
  EngineCall(active, "applyFilters", [filters |-> filters])

selectorSearch(active, term) == EngineCall(active, "search", [term |-> term])

\* paginate handed to the client-side engine whatever the strategy is.
selectorPaginate_client(active, page, pageSize) ==
  EngineCall("client", "paginate", [page |-> page, pageSize |-> pageSize])

selectorPaginate(active, page, pageSize) ==
  EngineCall(active, "paginate", [page |-> page, pageSize |-> pageSize])

\* ------------------------------------------------------------------------
\* The engines: what a call does when it is made and subscribed to
\* ------------------------------------------------------------------------
\* The outcome of one step of an engine: the network, the two engines, and the
\* value handed to the subscriber in this step (Null when none is).
Outcome(n, cs, ss, emits) ==
  [net |-> n, clientSide |-> cs, serverSide |-> ss, emits |-> emits]

\* paginate slicing the cached products, filtered or not.
clientExecute_paginatesAll(call, n, cs, ss) ==
  CASE call.op = "applyFiltersAndSearch" ->
         LET r == clientApplyFiltersAndSearch(cs.products, call.args.searchTerm,
                    call.args.filters, call.args.pageNumber, call.args.pageSize)
         IN  Outcome(n, [cs EXCEPT !.filteredProducts = r.filteredProducts], ss,
                     Some([products |-> r.products, totalItems |-> r.totalItems]))
    [] call.op = "applyFilters" ->
         Outcome(n, [cs EXCEPT !.filteredProducts =
                        applyFilters(cs.filteredProducts, call.args.filters)], ss, Null)
    [] call.op = "search" ->
         Outcome(n, [cs EXCEPT !.filteredProducts =
                        search(cs.filteredProducts, call.args.term)], ss, Null)
    [] call.op = "paginate" ->
         Outcome(n, cs, ss,
                 Some(paginate(cs.products, call.args.page, call.args.pageSize)))

\* applyFiltersAndSearch keeping what it filtered as the products themselves.
clientExecute_narrows(call, n, cs, ss) ==
  CASE call.op = "applyFiltersAndSearch" ->
         LET r == clientApplyFiltersAndSearch(cs.products, call.args.searchTerm,
                    call.args.filters, call.args.pageNumber, call.args.pageSize)
         IN  Outcome(n, [products |-> r.filteredProducts,
                         filteredProducts |-> r.filteredProducts], ss,
                     Some([products |-> r.products, totalItems |-> r.totalItems]))
    [] call.op = "applyFilters" ->
         Outcome(n, [cs EXCEPT !.filteredProducts =
                        applyFilters(cs.filteredProducts, call.args.filters)], ss, Null)
    [] call.op = "search" ->
         Outcome(n, [cs EXCEPT !.filteredProducts =
                        search(cs.filteredProducts, call.args.term)], ss, Null)
    [] call.op = "paginate" ->
         Outcome(n, cs, ss,
                 Some(paginate(cs.filteredProducts, call.args.page, call.args.pageSize)))

\* ClientSideFilteringService: applyFiltersAndSearch, applyFilters, search and
\* paginate run at once on the cached products.
clientExecute(call, n, cs, ss) ==
  CASE call.op = "applyFiltersAndSearch" ->
         LET r == clientApplyFiltersAndSearch(cs.products, call.args.searchTerm,
                    call.args.filters, call.args.pageNumber, call.args.pageSize)
         IN  Outcome(n, [cs EXCEPT !.filteredProducts = r.filteredProducts], ss,
                     Some([products |-> r.products, totalItems |-> r.totalItems]))
    [] call.op = "applyFilters" ->
         Outcome(n, [cs EXCEPT !.filteredProducts =
                        applyFilters(cs.filteredProducts, call.args.filters)], ss, Null)
    [] call.op = "search" ->
         Outcome(n, [cs EXCEPT !.filteredProducts =
                        search(cs.filteredProducts, call.args.term)], ss, Null)
    [] call.op = "paginate" ->
         Outcome(n, cs, ss,
                 Some(paginate(cs.filteredProducts, call.args.page, call.args.pageSize)))

\* applyFiltersAndSearch posting the page stored by the call before.
serverExecute_stalePage(id, call, n, cs, ss) ==
  CASE call.op = "applyFiltersAndSearch" ->
         Outcome(n \cup {Request(id, "filter",
                           buildPayload(call.args.searchTerm, call.args.filters,
                                        ss.currentPage, call.args.pageSize), call)},
                 cs,
                 [ss EXCEPT !.currentSearchTerm = call.args.searchTerm,
                            !.currentFilters = call.args.filters,
                            !.currentPage = call.args.pageNumber,
                            !.pageSize = call.args.pageSize],
                 Null)
    [] call.op = "paginate" ->
         Outcome(n \cup {Request(id, "filter",
                           buildPayload(ss.currentSearchTerm, ss.currentFilters,
                                        call.args.page, call.args.pageSize), call)},
                 cs,
                 [ss EXCEPT !.currentPage = call.args.page,
                            !.pageSize = call.args.pageSize],
                 Null)
    [] call.op \in {"applyFilters", "search"} -> Outcome(n, cs, ss, Null)

\* ServerSideFilteringService.applyFiltersAndSearch: store the query, post the
\* payload.  paginate is the same call with the stored term and filters.
serverExecute(id, call, n, cs, ss) ==
  CASE call.op = "applyFiltersAndSearch" ->
         Outcome(n \cup {Request(id, "filter",
                           buildPayload(call.args.searchTerm, call.args.filters,
                                        call.args.pageNumber, call.args.pageSize), call)},
                 cs,
                 [ss EXCEPT !.currentSearchTerm = call.args.searchTerm,
                            !.currentFilters = call.args.filters,
                            !.currentPage = call.args.pageNumber,
                            !.pageSize = call.args.pageSize],
                 Null)
    [] call.op = "paginate" ->
         Outcome(n \cup {Request(id, "filter",
                           buildPayload(ss.currentSearchTerm, ss.currentFilters,
                                        call.args.page, call.args.pageSize), call)},
                 cs,
                 [ss EXCEPT !.currentPage = call.args.page,
                            !.pageSize = call.args.pageSize],
                 Null)
    [] call.op \in {"applyFilters", "search"} -> Outcome(n, cs, ss, Null)

\* A call on an engine, numbered id, made with the network and the engines as
\* given.  getProducts and getProductsCount are the same in both engines.
executed(id, call, n, cs, ss) ==
  CASE call.op = "getProducts" ->
         Outcome(n \cup {Request(id, "products", Null, call)}, cs, ss, Null)
    [] call.op = "getProductsCount" ->
         Outcome(n \cup {Request(id, "count", Null, call)}, cs, ss, Null)
    [] call.op \notin {"getProducts", "getProductsCount"} /\ call.engine = "client" ->
         clientExecute(call, n, cs, ss)
    [] call.op \notin {"getProducts", "getProductsCount"} /\ call.engine = "server" ->
         serverExecute(id, call, n, cs, ss)

\* The count response dropping what the client-side engine had cached.
responded_dropsCache(m, cs, ss) ==
  CASE m.response.status # 200 -> Outcome({}, cs, ss, Null)
    [] m.response.status = 200 /\ m.url = "count" ->
         Outcome({}, [products |-> <<>>, filteredProducts |-> <<>>], ss,
                 Some(m.response.count))
    [] m.response.status = 200 /\ m.url = "products" /\ m.call.engine = "client" ->
         Outcome({}, [products |-> m.response.products,
                      filteredProducts |-> m.response.products], ss,
                 Some(m.response.products))
    [] m.response.status = 200 /\ m.url = "products" /\ m.call.engine = "server" ->
         Outcome({}, cs, [ss EXCEPT !.products = m.response.products,
                                    !.filteredProducts = m.response.products],
                 Some(m.response.products))
    [] m.response.status = 200 /\ m.url = "filter" ->
         Outcome({}, cs, [ss EXCEPT !.filteredProducts = m.response.products],
                 IF m.call.op = "paginate"
                   THEN Some(m.response.products)
                   ELSE Some([products |-> m.response.products,
                              totalItems |-> m.response.totalItems]))

\* The subscriber paginating the products of the server's page once more.
responded_localSlice(m, cs, ss) ==
  CASE m.response.status # 200 -> Outcome({}, cs, ss, Null)
    [] m.response.status = 200 /\ m.url = "count" ->
         Outcome({}, cs, ss, Some(m.response.count))
    [] m.response.status = 200 /\ m.url = "products" /\ m.call.engine = "client" ->
         Outcome({}, [products |-> m.response.products,
                      filteredProducts |-> m.response.products], ss,
                 Some(m.response.products))
    [] m.response.status = 200 /\ m.url = "products" /\ m.call.engine = "server" ->
         Outcome({}, cs, [ss EXCEPT !.products = m.response.products,
                                    !.filteredProducts = m.response.products],
                 Some(m.response.products))
    [] m.response.status = 200 /\ m.url = "filter" ->
         LET page == paginate(m.response.products, m.body.currentPage, m.body.pageSize)
         IN  Outcome({}, cs, [ss EXCEPT !.filteredProducts = page],
                     IF m.call.op = "paginate"
                       THEN Some(page)
                       ELSE Some([products |-> page,
                                  totalItems |-> m.response.totalItems]))

\* The subscriber inside the engine, run when the response m arrives: the
\* engine's new state and the value it hands on.  A failed request (status
\* 500) reaches no next-handler: nothing is stored and nothing is handed on.
responded(m, cs, ss) ==
  CASE m.response.status # 200 -> Outcome({}, cs, ss, Null)
    [] m.response.status = 200 /\ m.url = "count" ->
         Outcome({}, cs, ss, Some(m.response.count))
    [] m.response.status = 200 /\ m.url = "products" /\ m.call.engine = "client" ->
         Outcome({}, [products |-> m.response.products,
                      filteredProducts |-> m.response.products], ss,
                 Some(m.response.products))
    [] m.response.status = 200 /\ m.url = "products" /\ m.call.engine = "server" ->
         Outcome({}, cs, [ss EXCEPT !.products = m.response.products,
                                    !.filteredProducts = m.response.products],
                 Some(m.response.products))
    [] m.response.status = 200 /\ m.url = "filter" ->
         Outcome({}, cs, [ss EXCEPT !.filteredProducts = m.response.products],
                 IF m.call.op = "paginate"
                   THEN Some(m.response.products)
                   ELSE Some([products |-> m.response.products,
                              totalItems |-> m.response.totalItems]))

\* ------------------------------------------------------------------------
\* The server's routes
\* ------------------------------------------------------------------------
Reply(m, response) ==
  /\ net' = (net \ {m}) \cup {[m EXCEPT !.stage = "response", !.response = response]}
  /\ UNCHANGED <<controls, collection, strictQuery, strategy, clientSide, serverSide, component, history, query>>

\* GET /products/count
ServeCount ==
  \E m \in net :
    /\ m.stage = "request" /\ m.url = "count"
    /\ Reply(m, [status |-> 200, count |-> Len(collection)])

\* GET /products
ServeProducts ==
  \E m \in net :
    /\ m.stage = "request" /\ m.url = "products"
    /\ Reply(m, [status |-> 200, products |-> collection])

\* POST /products/filter
ServeFilter ==
  \E m \in net :
    /\ m.stage = "request" /\ m.url = "filter"
    /\ Reply(m, filterProducts(collection, m.body, strictQuery))

\* ------------------------------------------------------------------------
\* Bookkeeping of the run
\* ------------------------------------------------------------------------
\* A caller asked the selector for op with args while active was the strategy,
\* and the engine got call.
called(h, op, args, active, call) ==
  [h EXCEPT !.issued = @ + 1,
            !.lastCall = Some([op |-> op, args |-> args, strategy |-> active]),
            !.received = Some(call)]

\* The engine handed value to the subscriber of call number id; workingSet is
\* the collection the engine computed it from.  again tells whether the
\* engine's previous applyFiltersAndSearch result was for the same arguments
\* over the same collection.
emittedBy(h, id, call, value, workingSet) ==
  LET result(previous) ==
        Some([args |-> call.args, value |-> value, workingSet |-> workingSet,
              again |-> /\ previous # Null
                        /\ previous[1].args = call.args
                        /\ previous[1].workingSet = workingSet])
  IN  [h EXCEPT !.emitted = Some([id |-> id, call |-> call, value |-> value]),
                !.answered = @ \cup {id},
                !.clientResult =
                   IF call.engine = "client" /\ call.op = "applyFiltersAndSearch"
                     THEN result(@) ELSE @,
                !.serverResult =
                   IF call.engine = "server" /\ call.op = "applyFiltersAndSearch"
                     THEN result(@) ELSE @]

\* ------------------------------------------------------------------------
\* ProductListComponent
\* ------------------------------------------------------------------------
PageSizeOptions == <<5, 10, 20, 50>>

\* The page sizes and search terms the user picks in this model.
PickedPageSizes == {PageSizeOptions[1], PageSizeOptions[2]}

TypedTerms == {<<>>, <<"p", "h", "o", "n", "e">>}

\* The selections the category filter can emit (filterChange.multiselect).
CategoryMaps ==
  {Some(<<<<Electronics, FALSE>>, <<Fashion, FALSE>>>>),
   Some(<<<<Electronics, FALSE>>, <<Fashion, TRUE>>>>)}

\* The ranges the price filter can emit (filterChange.range).
PriceRanges ==
  {Null, Some(PriceRange(Some(50), Some(150))), Some(PriceRange(Some(50), Null))}

\* The distinct categories in the order of their last occurrence.
uniqueCategories_lastOccurrence(products) ==
  LET lasts == SelectSeq([k \in 1..Len(products) |-> k],
                 LAMBDA k : \A j \in (k + 1)..Len(products) :
                    Product(products[j]).category # Product(products[k]).category)
  IN  [k \in 1..Len(lasts) |-> Product(products[lasts[k]]).category]

\* [...new Set(products.map(p => p.category))]
uniqueCategories(products) ==
  LET firsts == SelectSeq([k \in 1..Len(products) |-> k],
                  LAMBDA k : \A j \in 1..(k - 1) :
                     Product(products[j]).category # Product(products[k]).category)
  IN  [k \in 1..Len(firsts) |-> Product(products[firsts[k]]).category]

\* The filters array built at the top of applyFiltersAndSearch.
componentFilters(c) ==
  (IF c.categoriesSelected # Null /\ someSelected(c.categoriesSelected[1])
     THEN <<[key |-> "category",
             value |-> Filter("multiselect", Some(selectedKeys(c.categoriesSelected[1])),
                              Null, c.categoriesSelected)]>>
     ELSE <<>>)
  \o
  (IF /\ c.priceRangeSelected # Null
      /\ (c.priceRangeSelected[1].min # Null \/ c.priceRangeSelected[1].max # Null)
     THEN <<[key |-> "price",
             value |-> Filter("range", Null, c.priceRangeSelected, Null)]>>
     ELSE <<>>)

\* The field updates of the event handlers, before they call the selector.
\* onPageChange going back to the first page.
onPageChange_reset(c, newPage) == [c EXCEPT !.currentPage = 1]

onPageChange(c, newPage) == [c EXCEPT !.currentPage = newPage]

onPageSizeChange(c, newSize) == [c EXCEPT !.pageSize = newSize, !.currentPage = 1]

\* onSearch keeping the page it was on.
onSearch_keepsPage(c, term) == [c EXCEPT !.searchTerm = term]

onSearch(c, term) == [c EXCEPT !.searchTerm = term, !.currentPage = 1]

onCategoriesSelectedChange(c, multiselect) == [c EXCEPT !.categoriesSelected = multiselect]

onPriceRangeChange(c, range) == [c EXCEPT !.priceRangeSelected = range]

\* The subscribers of applyFiltersAndSearch and of paginateProducts.
display(c, call, value) ==
  IF call.op = "applyFiltersAndSearch"
    THEN [c EXCEPT !.currentPageProducts = value.products,
                   !.totalItems = value.totalItems]
    ELSE [c EXCEPT !.currentPageProducts = value]

\* The component, its fields being c, calls the selector (asked: the method
\* and arguments; call: what the selector hands to the engine) with the
\* network, engines and history as given, and displays what comes back at once.
ComponentIssues(c, asked, call, n, cs, ss, h) ==
  LET id == h.issued + 1
      out == executed(id, call, n, cs, ss)
      h1 == called(h, asked.op, asked.args, call.engine, call)
  IN  /\ net' = out.net
      /\ clientSide' = out.clientSide
      /\ serverSide' = out.serverSide
      /\ component' = IF out.emits = Null THEN c ELSE display(c, call, out.emits[1])
      /\ history' = IF out.emits = Null THEN h1
                    ELSE [emittedBy(h1, id, call, out.emits[1], cs.products)
                            EXCEPT !.shown = id]

\* this.applyFiltersAndSearch() of the component.
ComponentApplies(c, n, cs, ss, h) ==
  LET filters == componentFilters(c)
  IN  ComponentIssues(c,
        [op |-> "applyFiltersAndSearch",
         args |-> QueryState(c.searchTerm, filters, c.currentPage, c.pageSize)],
        selectorApplyFiltersAndSearch(strategy, c.searchTerm, filters,
                                      c.currentPage, c.pageSize),
        n, cs, ss, h)

\* this.paginateProducts() of the component.
ComponentPaginates(c, n, cs, ss, h) ==
  ComponentIssues(c,
    [op |-> "paginate", args |-> [page |-> c.currentPage, pageSize |-> c.pageSize]],
    selectorPaginate(strategy, c.currentPage, c.pageSize),
    n, cs, ss, h)

\* ngOnInit -> getProducts: switchStrategy() is called and awaited.
NgOnInit ==
  /\ component.pc = "constructed"
  /\ LET id == history.issued + 1
         call == selectorGetProductsCount(strategy)
     IN  /\ net' = net \cup {[Request(id, "count", Null, call) EXCEPT !.tap = TRUE]}
         /\ history' = called(history, "switchStrategy", Null, strategy, call)
  /\ component' = [component EXCEPT !.pc = "awaitCount"]
  /\ UNCHANGED <<controls, collection, strictQuery, strategy, clientSide, serverSide, query>>

\* The count arrives: the tap of switchStrategy selects the strategy, the await
\* resumes and getProducts() is called on the selector.
ComponentCountArrives ==
  \E m \in net :
    /\ m.stage = "response" /\ m.url = "count" /\ m.tap
    /\ component.pc = "awaitCount"
    /\ LET out == responded(m, clientSide, serverSide)
           count == out.emits[1]
           id == history.issued + 1
           call == selectorGetProducts(selectStrategy(count))
           h1 == [emittedBy(history, m.id, m.call, count, collection)
                    EXCEPT !.lastCount = Some(count)]
       IN  /\ strategy' = selectStrategy(count)
           /\ net' = executed(id, call, net \ {m}, clientSide, serverSide).net
           /\ history' = called(h1, "getProducts", Null, selectStrategy(count), call)
    /\ component' = [component EXCEPT !.pc = "awaitProducts"]
    /\ UNCHANGED <<controls, collection, strictQuery, clientSide, serverSide, query>>

\* The products arrive: the engine caches them, the component stores them and
\* calls applyFiltersAndSearch().
ComponentProductsArrive ==
  \E m \in net :
    /\ m.stage = "response" /\ m.url = "products"
    /\ component.pc = "awaitProducts"
    /\ LET out == responded(m, clientSide, serverSide)
           data == out.emits[1]
           c == [component EXCEPT !.products = data,
                                  !.categories = uniqueCategories(data),
                                  !.totalItems = Len(data),
                                  !.pc = "ready"]
       IN  ComponentApplies(c, net \ {m}, out.clientSide, out.serverSide,
                            emittedBy(history, m.id, m.call, data, collection))
    /\ UNCHANGED <<controls, collection, strictQuery, strategy, query>>

\* A page arrives from the server: the engine keeps it and the component
\* displays it.
ComponentPageArrives ==
  \E m \in net :
    /\ m.stage = "response" /\ m.url = "filter" /\ m.response.status = 200
    /\ LET out == responded(m, clientSide, serverSide)
       IN  /\ serverSide' = out.serverSide
           /\ component' = display(component, m.call, out.emits[1])
           /\ history' = [emittedBy(history, m.id, m.call, out.emits[1], collection)
                            EXCEPT !.shown = m.id]
    /\ net' = net \ {m}
    /\ UNCHANGED <<controls, collection, strictQuery, strategy, clientSide, query>>

\* The server answered 500: no subscriber, of the engines or of their callers,
\* handles errors, so the response is dropped.
RequestFails ==
  \E m \in net :
    /\ m.stage = "response" /\ m.response.status # 200
    /\ net' = net \ {m}
    /\ UNCHANGED <<controls, collection, strictQuery, strategy, clientSide, serverSide, component, history, query>>

\* A user event may be handled: the component is initialised and the model's
\* bounds on events and on exchanges in flight leave room.
MayHandleEvent ==
  /\ component.pc # "constructed"
  /\ history.events < MaxEvents
  /\ Cardinality(net) < MaxInFlight

\* The history once the handler of the event name(arg) has started; pageBefore
\* is currentPage as the handler found it.
Event(name, arg) ==
  [history EXCEPT !.events = @ + 1,
                  !.lastEvent = Some([name |-> name, arg |-> arg,
                                      pageBefore |-> component.currentPage])]

OnPageChange ==
  \E newPage \in 1..MaxPage :
    /\ MayHandleEvent
    /\ ComponentPaginates(onPageChange(component, newPage), net, clientSide, serverSide,
                          Event("onPageChange", newPage))
    /\ UNCHANGED <<controls, collection, strictQuery, strategy, query>>

OnPageSizeChange ==
  \E newSize \in PickedPageSizes :
    /\ MayHandleEvent
    /\ ComponentApplies(onPageSizeChange(component, newSize), net, clientSide,
                        serverSide, Event("onPageSizeChange", newSize))
    /\ UNCHANGED <<controls, collection, strictQuery, strategy, query>>

OnSearch ==
  \E term \in TypedTerms :
    /\ MayHandleEvent
    /\ ComponentApplies(onSearch(component, term), net, clientSide, serverSide,
                        Event("onSearch", term))
    /\ UNCHANGED <<controls, collection, strictQuery, strategy, query>>

OnCategoriesSelectedChange ==
  \E multiselect \in CategoryMaps :
    /\ MayHandleEvent
    /\ ComponentApplies(onCategoriesSelectedChange(component, multiselect), net,
                        clientSide, serverSide,
                        Event("onCategoriesSelectedChange", multiselect))
    /\ UNCHANGED <<controls, collection, strictQuery, strategy, query>>

OnPriceRangeChange ==
  \E range \in PriceRanges :
    /\ MayHandleEvent
    /\ ComponentApplies(onPriceRangeChange(component, range), net, clientSide,
                        serverSide, Event("onPriceRangeChange", range))
    /\ UNCHANGED <<controls, collection, strictQuery, strategy, query>>

\* ------------------------------------------------------------------------
\* PaginationComponent
\* ------------------------------------------------------------------------
\* The inputs as the parent's fields bind them at first, nothing emitted yet.
InitPaginationComponent ==
  [currentPage |-> InitComponent.currentPage, pageSize |-> InitComponent.pageSize,
   totalItems |-> InitComponent.totalItems, pageChange |-> Null]

\* Math.floor in the place of Math.ceil.
totalPages_floor(totalItems, pageSize) == totalItems \div pageSize

\* get totalPages: Math.ceil(totalItems / pageSize), pageSize being positive.
totalPages(totalItems, pageSize) ==
  IF totalItems % pageSize = 0
    THEN totalItems \div pageSize
    ELSE (totalItems \div pageSize) + 1

\* What each handler emits through pageChange (Null: nothing).
onPrevious(c) == IF c.currentPage > 1 THEN Some(c.currentPage - 1) ELSE Null

onNext(c) ==
  IF c.currentPage < totalPages(c.totalItems, c.pageSize)
    THEN Some(c.currentPage + 1) ELSE Null

onPageInputChange(c, page) ==
  IF page >= 1 /\ page <= totalPages(c.totalItems, c.pageSize) THEN Some(page) ELSE Null

goToPage(c, page) ==
  IF page >= 1 /\ page <= totalPages(c.totalItems, c.pageSize) THEN Some(page) ELSE Null

\* The page numbers typed into the page input or passed to goToPage.
TypedPages == 0..(MaxPage + 2)

\* ------------------------------------------------------------------------
\* FilterComponent
\* ------------------------------------------------------------------------
Books == <<"B", "o", "o", "k", "s">>

\* The option lists the parent binds to multiselectOptions.
FilterOptionLists ==
  {Null, Some(<<Electronics, Fashion>>), Some(<<Electronics, Fashion, Books>>)}

\* lastToggle is the selection before and after the latest toggleSelectAll.
InitFilterComponent ==
  [multiselectOptions |-> Null, filterMultiselect |-> <<>>,
   isSelectAllDisabled |-> FALSE, lastToggle |-> Null]

initializeMultiselectOptions(multiselectOptions) ==
  IF multiselectOptions = Null THEN <<>>
  ELSE [k \in 1..Len(multiselectOptions[1]) |-> <<multiselectOptions[1][k], FALSE>>]

toggleSelectAll(c) ==
  [c EXCEPT !.isSelectAllDisabled = ~c.isSelectAllDisabled,
            !.filterMultiselect =
               [k \in 1..Len(c.filterMultiselect) |->
                  <<c.filterMultiselect[k][1], ~c.isSelectAllDisabled>>]]

\* The selection of one option changed.
onMultiselectChange(c, option, selected) ==
  [c EXCEPT !.filterMultiselect =
     [k \in 1..Len(c.filterMultiselect) |->
        IF c.filterMultiselect[k][1] = option
          THEN <<option, selected>> ELSE c.filterMultiselect[k]]]

resetFilters(c) == [c EXCEPT !.filterMultiselect = <<>>]

\* ------------------------------------------------------------------------
\* The application: the component over the selector, the engines and the server
\* ------------------------------------------------------------------------
Init ==
  /\ collection \in Collections
  /\ strictQuery \in BOOLEAN
  /\ net = {}
  /\ strategy = "client"
  /\ clientSide = InitClientSide
  /\ serverSide = InitServerSide
  /\ component = InitComponent
  /\ history = InitHistory
  /\ query = NoQuery
  /\ paginationComponent = InitPaginationComponent
  /\ filterComponent = InitFilterComponent

Next ==
  \/ NgOnInit
  \/ ComponentCountArrives
  \/ ComponentProductsArrive
  \/ ComponentPageArrives
  \/ RequestFails
  \/ OnPageChange
  \/ OnPageSizeChange
  \/ OnSearch
  \/ OnCategoriesSelectedChange
  \/ OnPriceRangeChange
  \/ ServeCount
  \/ ServeProducts
  \/ ServeFilter

Spec == Init /\ [][Next]_vars

\* ------------------------------------------------------------------------
\* A caller of the selector other than the component: any sequence of calls
\* on FilteringService, each subscribed to, over the same engines and server
\* ------------------------------------------------------------------------
\* A filter as a caller of the FilteringStrategy interface builds it.
MultiselectFilter(key, map) ==
  [key |-> key,
   value |-> Filter("multiselect", Some(selectedKeys(map)), Null, Some(map))]

RangeFilter(key, min, max) ==
  [key |-> key, value |-> Filter("range", Null, Some(PriceRange(min, max)), Null)]

FashionSelected == <<<<Electronics, FALSE>>, <<Fashion, TRUE>>>>

NoneSelected == <<<<Electronics, FALSE>>, <<Fashion, FALSE>>>>

\* The queries, filter lists and terms the caller passes in this model.
CallerQueries ==
  {QueryState(<<>>, <<>>, 1, PageSizeOptions[1]),
   QueryState(<<"p", "h", "o", "n", "e">>,
              <<MultiselectFilter("multiselect", FashionSelected)>>, MaxPage, PageSizeOptions[1]),
   QueryState(<<>>, <<RangeFilter("price", Some(50), Some(150))>>, 1, PageSizeOptions[1]),
   QueryState(<<>>, <<>>, 1, 0)}

CallerFilters == {<<MultiselectFilter("multiselect", FashionSelected)>>}

\* The caller may make another call: the model's bounds leave room.
MayCall ==
  /\ history.issued < MaxCalls
  /\ Cardinality(net) < MaxInFlight

\* The caller calls the selector (asked: the method and arguments; call: what
\* the selector hands to the engine) and subscribes to what it returns.
Calls(asked, call) ==
  LET id == history.issued + 1
      out == executed(id, call, net, clientSide, serverSide)
      h1 == called(history, asked.op, asked.args, call.engine, call)
  IN  /\ net' = out.net
      /\ clientSide' = out.clientSide
      /\ serverSide' = out.serverSide
      /\ history' = IF out.emits = Null THEN h1
                    ELSE emittedBy(h1, id, call, out.emits[1], clientSide.products)
      /\ UNCHANGED <<controls, collection, strictQuery, strategy, component, query>>

CallSwitchStrategy ==
  /\ MayCall
  /\ LET id == history.issued + 1
         call == selectorGetProductsCount(strategy)
     IN  /\ net' = net \cup {[Request(id, "count", Null, call) EXCEPT !.tap = TRUE]}
         /\ history' = called(history, "switchStrategy", Null, strategy, call)
  /\ UNCHANGED <<controls, collection, strictQuery, strategy, clientSide, serverSide, component, query>>

CallGetProducts ==
  /\ MayCall
  /\ Calls([op |-> "getProducts", args |-> Null], selectorGetProducts(strategy))

CallApplyFiltersAndSearch ==
  \E q \in CallerQueries :
    /\ MayCall
    /\ Calls([op |-> "applyFiltersAndSearch", args |-> q],
             selectorApplyFiltersAndSearch(strategy, q.searchTerm, q.filters,
                                           q.pageNumber, q.pageSize))

CallApplyFilters ==
  \E filters \in CallerFilters :
    /\ MayCall
    /\ Calls([op |-> "applyFilters", args |-> [filters |-> filters]],
             selectorApplyFilters(strategy, filters))

CallSearch ==
  \E term \in TypedTerms :
    /\ MayCall
    /\ Calls([op |-> "search", args |-> [term |-> term]], selectorSearch(strategy, term))

CallPaginate ==
  \E page \in 1..MaxPage :
    /\ MayCall
    /\ Calls([op |-> "paginate",
              args |-> [page |-> page, pageSize |-> PageSizeOptions[1]]],
             selectorPaginate(strategy, page, PageSizeOptions[1]))

\* A response arrives: the engine's subscriber runs and hands the value to the
\* caller's; the count of switchStrategy passes through the tap on its way.
CallerReceives ==
  \E m \in net :
    /\ m.stage = "response" /\ m.response.status = 200
    /\ LET out == responded(m, clientSide, serverSide)
           h1 == emittedBy(history, m.id, m.call, out.emits[1], collection)
       IN  /\ clientSide' = out.clientSide
           /\ serverSide' = out.serverSide
           /\ strategy' = IF m.tap THEN selectStrategy(out.emits[1]) ELSE strategy
           /\ history' = IF m.tap THEN [h1 EXCEPT !.lastCount = Some(out.emits[1])]
                         ELSE h1
    /\ net' = net \ {m}
    /\ UNCHANGED <<controls, collection, strictQuery, component, query>>

NextSelector ==
  \/ CallSwitchStrategy
  \/ CallGetProducts
  \/ CallApplyFiltersAndSearch
  \/ CallApplyFilters
  \/ CallSearch
  \/ CallPaginate
  \/ CallerReceives
  \/ RequestFails
  \/ ServeCount
  \/ ServeProducts
  \/ ServeFilter

SpecSelector == Init /\ [][NextSelector]_vars

\* ------------------------------------------------------------------------
\* The two engines called directly with one QueryState over one dataset
\* ------------------------------------------------------------------------
QueryPageSizes == {3, PageSizeOptions[1]}

QueryFilters ==
  {<<>>,
   <<MultiselectFilter("multiselect", FashionSelected)>>,
   <<MultiselectFilter("multiselect", NoneSelected)>>,
   <<MultiselectFilter("multiselect", <<>>)>>,
   <<MultiselectFilter("category", FashionSelected)>>,
   <<MultiselectFilter("brand", FashionSelected)>>,
   <<RangeFilter("range", Some(50), Some(150))>>,
   <<RangeFilter("range", Some(50), Null)>>,
   <<RangeFilter("range", Null, Some(150))>>,
   <<RangeFilter("range", Null, Null)>>,
   <<RangeFilter("price", Null, Null)>>,
   <<RangeFilter("price", Some(50), Some(150))>>,
   <<MultiselectFilter("multiselect", FashionSelected),
     RangeFilter("range", Some(50), Some(150))>>}

Queries ==
  {QueryState(term, filters, page, pageSize) :
     term \in SearchTerms, filters \in QueryFilters,
     page \in 1..MaxPage, pageSize \in QueryPageSizes}

\* The In-Memory engine has loaded the dataset; nothing has been asked yet.
InitQuery ==
  /\ collection \in Collections
  /\ strictQuery \in BOOLEAN
  /\ query \in Queries
  /\ net = {}
  /\ strategy = "client"
  /\ clientSide = [products |-> collection, filteredProducts |-> collection]
  /\ serverSide = InitServerSide
  /\ component = InitComponent
  /\ history = InitHistory
  /\ paginationComponent = InitPaginationComponent
  /\ filterComponent = InitFilterComponent

QueryInMemory ==
  /\ history.clientResult = Null
  /\ MayCall
  /\ Calls([op |-> "applyFiltersAndSearch", args |-> query],
           EngineCall("client", "applyFiltersAndSearch", query))

QueryRemote ==
  /\ history.serverResult = Null
  /\ MayCall
  /\ Calls([op |-> "applyFiltersAndSearch", args |-> query],
           EngineCall("server", "applyFiltersAndSearch", query))

NextQuery ==
  \/ QueryInMemory
  \/ QueryRemote
  \/ CallerReceives
  \/ RequestFails
  \/ ServeFilter

SpecQuery == InitQuery /\ [][NextQuery]_vars

\* ------------------------------------------------------------------------
\* The pagination component under its parent
\* ------------------------------------------------------------------------
\* The application at rest: nothing of it moves while a control is exercised.
InitControls ==
  /\ collection = Collection(Len(PRODUCTS))
  /\ strictQuery = TRUE
  /\ net = {}
  /\ strategy = "client"
  /\ clientSide = InitClientSide
  /\ serverSide = InitServerSide
  /\ component = InitComponent
  /\ history = InitHistory
  /\ query = NoQuery
  /\ paginationComponent = InitPaginationComponent
  /\ filterComponent = InitFilterComponent

application ==
  <<collection, strictQuery, net, strategy, clientSide, serverSide, component, history, query>>

\* The component once a handler (by) has emitted emission through pageChange,
\* if anything: the parent's onPageChange stores the page, which comes back
\* as currentPage.
pageChanged(c, by, emission) ==
  IF emission = Null THEN c
  ELSE [c EXCEPT !.currentPage = emission[1],
                 !.pageChange =
                    Some([by |-> by, page |-> emission[1],
                          totalPages |-> totalPages(c.totalItems, c.pageSize)])]

OnPrevious ==
  /\ paginationComponent' =
       pageChanged(paginationComponent, "onPrevious", onPrevious(paginationComponent))
  /\ UNCHANGED <<application, filterComponent>>

OnNext ==
  /\ paginationComponent' =
       pageChanged(paginationComponent, "onNext", onNext(paginationComponent))
  /\ UNCHANGED <<application, filterComponent>>

OnPageInputChange ==
  \E page \in TypedPages :
    /\ paginationComponent' =
         pageChanged(paginationComponent, "onPageInputChange",
                     onPageInputChange(paginationComponent, page))
    /\ UNCHANGED <<application, filterComponent>>

GoToPage ==
  \E page \in TypedPages :
    /\ paginationComponent' =
         pageChanged(paginationComponent, "goToPage", goToPage(paginationComponent, page))
    /\ UNCHANGED <<application, filterComponent>>

\* onPageSizeChange of the pagination component: the size is stored and
\* emitted, then page 1 is emitted.
PaginationOnPageSizeChange ==
  \E newSize \in PickedPageSizes :
    /\ paginationComponent' =
         [paginationComponent EXCEPT
            !.pageSize = newSize,
            !.currentPage = 1,
            !.pageChange = Some([by |-> "onPageSizeChange", page |-> 1,
                                 totalPages |-> totalPages(paginationComponent.totalItems,
                                                           newSize)])]
    /\ UNCHANGED <<application, filterComponent>>

\* The parent displays the result of a search (back on page 1).
ParentSearches ==
  \E n \in 0..MaxItems :
    /\ paginationComponent' =
         [paginationComponent EXCEPT !.totalItems = n, !.currentPage = 1]
    /\ UNCHANGED <<application, filterComponent>>

\* The parent displays the result of a filter change (the page is kept).
ParentFilters ==
  \E n \in 0..MaxItems :
    /\ paginationComponent' = [paginationComponent EXCEPT !.totalItems = n]
    /\ UNCHANGED <<application, filterComponent>>

NextPagination ==
  \/ OnPrevious
  \/ OnNext
  \/ OnPageInputChange
  \/ GoToPage
  \/ PaginationOnPageSizeChange
  \/ ParentSearches
  \/ ParentFilters

SpecPagination == InitControls /\ [][NextPagination]_vars

\* ------------------------------------------------------------------------
\* The filter component under its parent
\* ------------------------------------------------------------------------
\* The parent binds another list of options: ngOnChanges (and, the first
\* time, ngOnInit) initialises the selection.
FilterNgOnChanges ==
  \E options \in FilterOptionLists :
    /\ options # filterComponent.multiselectOptions
    /\ filterComponent' =
         [filterComponent EXCEPT
            !.multiselectOptions = options,
            !.filterMultiselect = initializeMultiselectOptions(options)]
    /\ UNCHANGED <<application, paginationComponent>>

ToggleSelectAll ==
  /\ filterComponent' =
       [toggleSelectAll(filterComponent) EXCEPT
          !.lastToggle =
             Some([before |-> filterComponent.filterMultiselect,
                   after |-> toggleSelectAll(filterComponent).filterMultiselect])]
  /\ UNCHANGED <<application, paginationComponent>>

OnMultiselectChange ==
  \E k \in 1..Len(filterComponent.filterMultiselect), selected \in BOOLEAN :
    /\ filterComponent' =
         onMultiselectChange(filterComponent,
                             filterComponent.filterMultiselect[k][1], selected)
    /\ UNCHANGED <<application, paginationComponent>>

ResetFilters ==
  /\ filterComponent' = resetFilters(filterComponent)
  /\ UNCHANGED <<application, paginationComponent>>

NextFilter ==
  \/ FilterNgOnChanges
  \/ ToggleSelectAll
  \/ OnMultiselectChange
  \/ ResetFilters

SpecFilter == InitControls /\ [][NextFilter]_vars

\* ------------------------------------------------------------------------
\* Properties
\* ------------------------------------------------------------------------
\* The latest user event, and whether this step is the handler of an event.
lastEventName == IF history.lastEvent = Null THEN "" ELSE history.lastEvent[1].name

EventHandled == history'.events = history.events + 1

\* C1: for every QueryState and every dataset, the In-Memory engine's
\* applyFiltersAndSearch and the Remote engine's (payload built by the client,
\* evaluated by filterProducts over the same dataset) return the same
\* totalItems and the same ordered items.
C1_EnginesAgree ==
  (history.clientResult # Null /\ history.serverResult # Null)
    => history.clientResult[1].value = history.serverResult[1].value

\* C2: switchStrategy asks for the product count; once the count response has
\* been processed the count it returned is the size of the collection and the
\* active engine is Remote if count > threshold and In-Memory otherwise.
C2_SwitchStrategy ==
  history.lastCount # Null =>
    /\ history.lastCount[1] = Len(collection)
    /\ strategy = IF history.lastCount[1] > treshold THEN "server" ELSE "client"

\* A count equal to the threshold has selected the In-Memory engine.
C2_Witness ==
  /\ history.lastCount = Some(treshold)
  /\ strategy = "client"
  /\ history.emitted # Null
  /\ history.emitted[1].call.op = "getProductsCount"
  /\ history.emitted[1].value = treshold

\* Scenario A: applyFiltersAndSearch("", [], 1, 5).
ScenarioQuery == QueryState(<<>>, <<>>, 1, PageSizeOptions[1])

\* This step is a call of applyFiltersAndSearch("", [], 1, 5) on the selector,
\* made after switchStrategy has selected the In-Memory engine for the mock
\* catalogue of 10 products.
ScenarioCallAfterSwitch ==
  /\ history'.issued = history.issued + 1
  /\ history.lastCount # Null
  /\ strategy = "client"
  /\ Len(collection) = Len(PRODUCTS)
  /\ history'.lastCall = Some([op |-> "applyFiltersAndSearch", args |-> ScenarioQuery,
                               strategy |-> "client"])

\* C3 as stated: the selection of the In-Memory engine loads the collection,
\* so that applyFiltersAndSearch("", [], 1, 5) issued right after
\* switchStrategy, with no getProducts call, returns 5 items and totalItems 10.
C3_LoadedBySwitch ==
  [][(ScenarioCallAfterSwitch /\ history.issued = 1) =>
       /\ Len(history'.clientResult[1].value.products) = 5
       /\ history'.clientResult[1].value.totalItems = 10]_vars

\* C3 amended: switchStrategy leaves the working set of the In-Memory engine
\* as it is; the working set changes only when the response to a getProducts
\* call on that engine arrives.  applyFiltersAndSearch("", [], 1, 5) issued
\* after the switch returns the first 5 of the 10 products and totalItems 10
\* once getProducts has delivered the collection, and no items and
\* totalItems 0 before.
C3_LoadedByGetProducts ==
  [][/\ (\E m \in net \ net' : m.tap) => clientSide' = clientSide
     /\ clientSide'.products # clientSide.products =>
          \E m \in net \ net' : /\ m.url = "products" /\ m.call.engine = "client"
                                /\ clientSide'.products = collection
     /\ ScenarioCallAfterSwitch =>
          IF clientSide.products = collection
            THEN /\ history'.clientResult[1].value.products = SubSeq(collection, 1, 5)
                 /\ history'.clientResult[1].value.totalItems = 10
            ELSE /\ clientSide.products = <<>>
                 /\ history'.clientResult[1].value.products = <<>>
                 /\ history'.clientResult[1].value.totalItems = 0]_vars

\* switchStrategy, getProducts and applyFiltersAndSearch("", [], 1, 5) were
\* called in turn on the 10 products: 5 items of 10.
C3_Witness ==
  /\ history.lastCount = Some(Len(PRODUCTS))
  /\ strategy = "client"
  /\ history.issued = 3
  /\ history.lastCall = Some([op |-> "applyFiltersAndSearch", args |-> ScenarioQuery,
                              strategy |-> "client"])
  /\ history.clientResult # Null
  /\ history.clientResult[1].workingSet = collection
  /\ Len(history.clientResult[1].value.products) = 5
  /\ history.clientResult[1].value.totalItems = 10

\* C4: the active engine starts as the client-side one and changes only when
\* the count response of switchStrategy is processed; every getProducts,
\* applyFiltersAndSearch, applyFilters, search and paginate call on the
\* selector reaches the engine active at the time of the call with the
\* arguments it was made with, and changes neither the active engine nor
\* what an earlier call asked for.
C4_Forwarding ==
  /\ strategy = "client"
  /\ [][/\ strategy' # strategy =>
             \E m \in net \ net' : m.tap /\ m.stage = "response"
        /\ (history'.issued # history.issued
              /\ history'.lastCall[1].op # "switchStrategy") =>
             /\ strategy' = strategy
             /\ history'.lastCall[1].strategy = strategy
             /\ history'.received =
                  Some(EngineCall(strategy, history'.lastCall[1].op,
                                  history'.lastCall[1].args))]_vars

\* After a switch to the server-side engine, paginate(MaxPage, 5) reached it.
C4_Witness ==
  /\ strategy = "server"
  /\ history.lastCall = Some([op |-> "paginate",
                              args |-> [page |-> MaxPage, pageSize |-> PageSizeOptions[1]],
                              strategy |-> "server"])
  /\ history.received = Some(EngineCall("server", "paginate",
                               [page |-> MaxPage, pageSize |-> PageSizeOptions[1]]))

\* Whether a catalogue entry contains the term, case-insensitively, in its
\* name, category or description: by comparing every substring.
containsTerm ==
  [term \in SearchTerms |->
    [k \in 1..Len(PRODUCTS) |->
      \E field \in {PRODUCTS[k].name, PRODUCTS[k].category, PRODUCTS[k].description} :
        \E i \in 1..(Len(field) + 1) :
          /\ i + Len(term) - 1 <= Len(field)
          /\ toLowerCase(SubSeq(field, i, i + Len(term) - 1)) = toLowerCase(term)]]

\* A product passes a filter: a multiselect filter with some entry selected
\* asks for a selected category, a range filter with both bounds set asks for
\* a price within them, bounds included; any other filter is not active.
passesFilter(id, filter) ==
  CASE /\ filter.key = "multiselect" /\ filter.value.multiselect # Null
       /\ someSelected(filter.value.multiselect[1]) ->
         <<Product(id).category, TRUE>> \in
            {filter.value.multiselect[1][k] : k \in 1..Len(filter.value.multiselect[1])}
    [] /\ filter.key = "range" /\ filter.value.range # Null
       /\ filter.value.range[1].min # Null /\ filter.value.range[1].max # Null ->
         Product(id).price \in filter.value.range[1].min[1]..filter.value.range[1].max[1]
    [] OTHER -> TRUE

pageLengthRight(r) ==
  /\ Len(r.value.products) <= r.args.pageSize
  /\ Len(r.value.products) =
       Min(r.args.pageSize,
           Max(0, r.value.totalItems - (r.args.pageNumber - 1) * r.args.pageSize))

\* C6: every result of applyFiltersAndSearch, of either engine, has
\* items.length <= pageSize and
\* items.length = min(pageSize, max(0, totalItems - (pageNumber-1)*pageSize));
\* a page beyond the last one is empty with totalItems kept.
C6_PageLength ==
  /\ history.clientResult # Null => pageLengthRight(history.clientResult[1])
  /\ history.serverResult # Null => pageLengthRight(history.serverResult[1])

\* Both engines were asked for a page beyond the last one: no items, and the
\* number of matches as totalItems.
C6_Witness ==
  /\ history.clientResult # Null
  /\ history.serverResult # Null
  /\ history.clientResult[1].args.pageNumber > 1
  /\ history.clientResult[1].value.products = <<>>
  /\ history.clientResult[1].value.totalItems > 0
  /\ history.serverResult[1].value.products = <<>>
  /\ history.serverResult[1].value.totalItems > 0

\* C7: onSearch and onPageSizeChange set currentPage to 1 before the request
\* is issued; applyFiltersAndSearch is issued with the new term or the new
\* page size and pageNumber 1, and in Remote mode the payload carries them.
C7_ResetOnSearchAndSize ==
  [][(EventHandled /\ history'.lastEvent[1].name \in {"onSearch", "onPageSizeChange"}) =>
       /\ component'.currentPage = 1
       /\ history'.lastEvent[1].name = "onSearch" =>
            component'.searchTerm = history'.lastEvent[1].arg
       /\ history'.lastEvent[1].name = "onPageSizeChange" =>
            component'.pageSize = history'.lastEvent[1].arg
       /\ history'.lastCall =
            Some([op |-> "applyFiltersAndSearch",
                  args |-> QueryState(component'.searchTerm, componentFilters(component'),
                                      1, component'.pageSize),
                  strategy |-> strategy])
       /\ strategy = "server" =>
            \E m \in net' \ net :
              /\ m.url = "filter"
              /\ m.body.currentPage = 1
              /\ m.body.searchTerm = component'.searchTerm
              /\ m.body.pageSize = component'.pageSize]_vars

\* A search typed on page MaxPage in Remote mode: back on page 1.
C7_Witness ==
  /\ lastEventName = "onSearch"
  /\ history.lastEvent[1].arg # <<>>
  /\ history.lastEvent[1].pageBefore = MaxPage
  /\ component.currentPage = 1
  /\ component.searchTerm = history.lastEvent[1].arg
  /\ strategy = "server"
  /\ history.lastCall[1].op = "applyFiltersAndSearch"
  /\ history.lastCall[1].args.pageNumber = 1

\* C8: onCategoriesSelectedChange and onPriceRangeChange reset the page: from
\* any currentPage, the applyFiltersAndSearch request issued for the new
\* filters carries pageNumber 1 and currentPage is 1 afterwards.
C8_ResetOnFilterChange ==
  [][(EventHandled /\ history'.lastEvent[1].name \in
        {"onCategoriesSelectedChange", "onPriceRangeChange"}) =>
       /\ component'.currentPage = 1
       /\ history'.lastCall[1].op = "applyFiltersAndSearch"
       /\ history'.lastCall[1].args.pageNumber = 1]_vars

\* C9: onPageChange(n) sets currentPage to n and calls paginate(n, pageSize)
\* on the selector; searchTerm, the selected categories, the price range and
\* pageSize stay as they were.
C9_PageChangeOnly ==
  [][(EventHandled /\ history'.lastEvent[1].name = "onPageChange") =>
       /\ component'.currentPage = history'.lastEvent[1].arg
       /\ history'.lastCall =
            Some([op |-> "paginate",
                  args |-> [page |-> history'.lastEvent[1].arg,
                            pageSize |-> component.pageSize],
                  strategy |-> strategy])
       /\ component'.searchTerm = component.searchTerm
       /\ component'.categoriesSelected = component.categoriesSelected
       /\ component'.priceRangeSelected = component.priceRangeSelected
       /\ component'.pageSize = component.pageSize]_vars

\* Page MaxPage was asked for while a search term was set.
C9_Witness ==
  /\ lastEventName = "onPageChange"
  /\ history.lastEvent[1].arg = MaxPage
  /\ history.lastEvent[1].pageBefore = 1
  /\ component.currentPage = MaxPage
  /\ component.searchTerm # <<>>
  /\ history.lastCall[1].op = "paginate"
  /\ history.lastCall[1].args.page = MaxPage

\* C10: last request wins: once every response has arrived and the most
\* recently issued request has been answered, what the component displays is
\* the result of that request.
C10_LastRequestWins ==
  (net = {} /\ history.issued \in history.answered) => history.shown = history.issued

\* C11: when the data source's query fails, the Remote engine delivers an
\* outcome for that call to its caller: no failed response is consumed
\* without the caller of the call being answered.
C11_FailureDelivered ==
  [][\A m \in net \ net' :
       (m.stage = "response" /\ m.url = "filter" /\ m.response.status # 200)
         => m.id \in history'.answered]_vars

\* The filter asks for a range with both bounds set.
closedRange(filter) ==
  /\ filter.value.type = "range"
  /\ filter.value.range # Null
  /\ filter.value.range[1].min # Null
  /\ filter.value.range[1].max # Null

\* C12: in In-Memory mode, when the component has a price range with both
\* bounds set, applyFiltersAndSearch returns only products with
\* min <= price <= max; for {50, 150} alone over the mock catalogue
\* totalItems is 3.
C12_ComponentPriceRange ==
  (history.clientResult # Null /\ history.clientResult[1].workingSet = collection) =>
    LET r == history.clientResult[1]
    IN  \A k \in 1..Len(r.args.filters) :
          (r.args.filters[k].key = "price" /\ closedRange(r.args.filters[k])) =>
            LET range == r.args.filters[k].value.range[1]
            IN  /\ \A i \in 1..Len(r.value.products) :
                     Product(r.value.products[i]).price \in range.min[1]..range.max[1]
                /\ (/\ Len(collection) = Len(PRODUCTS)
                    /\ r.args.searchTerm = <<>>
                    /\ Len(r.args.filters) = 1
                    /\ range = PriceRange(Some(50), Some(150)))
                     => r.value.totalItems = 3

\* C13: a range filter with exactly one null bound is unbounded on that side
\* only: the In-Memory engine returns the products with price >= min when max
\* is null, and those with price <= max when min is null.
C13_HalfOpenRange ==
  (/\ history.clientResult # Null
   /\ history.clientResult[1].args.searchTerm = <<>>
   /\ Len(history.clientResult[1].args.filters) = 1
   /\ history.clientResult[1].args.filters[1].key = "range"
   /\ history.clientResult[1].args.filters[1].value.range # Null) =>
    LET r == history.clientResult[1]
        range == r.args.filters[1].value.range[1]
        matching == SelectSeq(r.workingSet,
                      LAMBDA id : /\ range.min = Null \/ Product(id).price >= range.min[1]
                                  /\ range.max = Null \/ Product(id).price <= range.max[1])
    IN  ((range.min = Null) # (range.max = Null)) => r.value.totalItems = Len(matching)

\* The filter is a multiselect filter in which no entry is selected.
vacuousMultiselect(filter) ==
  /\ filter.value.type = "multiselect"
  /\ filter.value.multiselect # Null
  /\ ~someSelected(filter.value.multiselect[1])

\* The filter is a range filter with both bounds null.
vacuousRange(filter) ==
  /\ filter.value.type = "range"
  /\ filter.value.range # Null
  /\ filter.value.range[1].min = Null
  /\ filter.value.range[1].max = Null

\* What the In-Memory engine returns for the query q over products.
inMemoryResult(products, q, filters) ==
  LET r == clientApplyFiltersAndSearch(products, q.searchTerm, filters,
                                       q.pageNumber, q.pageSize)
  IN  [products |-> r.products, totalItems |-> r.totalItems]

C15_VacuousRange ==
  /\ history.clientResult # Null =>
       LET r == history.clientResult[1]
           kept == SelectSeq(r.args.filters, LAMBDA f : ~vacuousRange(f))
       IN  kept # r.args.filters => r.value = inMemoryResult(r.workingSet, r.args, kept)
  /\ \A m \in net :
       (m.stage = "response" /\ m.url = "filter") =>
         LET q == m.call.args
             kept == SelectSeq(q.filters, LAMBDA f : ~vacuousRange(f))
         IN  kept # q.filters =>
               m.response = filterProducts(collection,
                              buildPayload(q.searchTerm, kept, q.pageNumber, q.pageSize),
                              strictQuery)

\* Scenario B: the search for "phone" with no filters, first page, over the
\* mock catalogue.
phoneSearched(r) ==
  /\ r.args.searchTerm = <<"p", "h", "o", "n", "e">>
  /\ r.args.filters = <<>>
  /\ r.args.pageNumber = 1
  /\ r.workingSet = Collection(Len(PRODUCTS))

\* C16 as stated: searching "phone" with no filters over the mock catalogue
\* yields totalItems = 1 and items = [Phone].
C16_OnePhone ==
  (history.clientResult # Null /\ phoneSearched(history.clientResult[1])) =>
    /\ history.clientResult[1].value.totalItems = 1
    /\ history.clientResult[1].value.products = <<2>>

\* C16 amended: searching "phone" with no filters over the mock catalogue
\* yields totalItems = 2 and items = [Phone, Headphones], the two products
\* whose name, category or description contains "phone"; on either engine.
C16_TwoPhones ==
  \A result \in {history.clientResult, history.serverResult} :
    (result # Null /\ phoneSearched(result[1])) =>
      /\ result[1].value.totalItems = 2
      /\ result[1].value.products = <<2, 6>>
      /\ Product(2).name = <<"P", "h", "o", "n", "e">>
      /\ Product(6).name = <<"H", "e", "a", "d", "p", "h", "o", "n", "e", "s">>

\* Both engines have answered the search for "phone" over the mock catalogue.
C16_Witness ==
  /\ history.clientResult # Null
  /\ history.serverResult # Null
  /\ phoneSearched(history.clientResult[1])
  /\ phoneSearched(history.serverResult[1])
  /\ history.clientResult[1].value.totalItems = 2

\* C17: once a count above the threshold has selected the Remote engine,
\* each applyFiltersAndSearch on the selector sends exactly one query, built
\* from its arguments, and returns nothing of its own; when the answer
\* arrives, the caller gets the data source's products and totalItems as they
\* are.
C17_RemoteDelegates ==
  [][/\ (history'.lastCount # Null /\ history'.lastCount[1] > treshold)
          => strategy' = "server"
     /\ (/\ history'.issued = history.issued + 1
         /\ strategy = "server"
         /\ history'.lastCall[1].op = "applyFiltersAndSearch") =>
          /\ \E m \in net' \ net :
               /\ net' = net \cup {m}
               /\ m.url = "filter" /\ m.stage = "request"
               /\ m.body.searchTerm = history'.lastCall[1].args.searchTerm
               /\ m.body.currentPage = history'.lastCall[1].args.pageNumber
               /\ m.body.pageSize = history'.lastCall[1].args.pageSize
               /\ Len(m.body.filters.filters) = Len(history'.lastCall[1].args.filters)
          /\ history'.emitted = history.emitted
          /\ clientSide' = clientSide
     /\ \A m \in net \ net' :
          (/\ m.stage = "response" /\ m.url = "filter" /\ m.response.status = 200
           /\ m.call.op = "applyFiltersAndSearch") =>
            /\ history'.emitted =
                 Some([id |-> m.id, call |-> m.call,
                       value |-> [products |-> m.response.products,
                                  totalItems |-> m.response.totalItems]])
            /\ net' = net \ {m}]_vars

\* With MaxProducts documents the Remote engine was selected, and the caller
\* of applyFiltersAndSearch got a page of a larger number of matches.
C17_Witness ==
  /\ history.lastCount = Some(MaxProducts)
  /\ strategy = "server"
  /\ history.emitted # Null
  /\ history.emitted[1].call = EngineCall("server", "applyFiltersAndSearch", ScenarioQuery)
  /\ Len(history.emitted[1].value.products) = ScenarioQuery.pageSize
  /\ history.emitted[1].value.totalItems = MaxProducts

\* C18: in the payload the Remote engine builds, a range filter with bounds
\* {min, max} carries min and max as its two values, and a multiselect filter
\* carries the selected alternatives with logic "or".
C18_PayloadCarriesBounds ==
  \A m \in net :
    (m.url = "filter" /\ m.call.op = "applyFiltersAndSearch") =>
      \A k \in 1..Len(m.call.args.filters) :
        LET filter == m.call.args.filters[k]
            sent == m.body.filters.filters[k]
        IN  /\ sent.key = filter.key
            /\ closedRange(filter) =>
                 /\ Len(sent.values) = 2
                 /\ parseFloat(sent.values, 0) = filter.value.range[1].min
                 /\ parseFloat(sent.values, 1) = filter.value.range[1].max
            /\ (filter.value.type = "multiselect" /\ filter.value.multiselect # Null) =>
                 /\ sent.values = selectedKeys(filter.value.multiselect[1])
                 /\ sent.logic = "or"

\* C19: applyFiltersAndSearch called again with the QueryState of the
\* engine's previous result, over the same dataset, returns the same items in
\* the same order and the same totalItems, on either engine and whatever was
\* called before.
C19_Idempotent ==
  [][/\ (/\ history'.clientResult # Null
         /\ history'.clientResult[1].again
         /\ history'.issued = history.issued + 1)
          => history'.clientResult[1].value = history.clientResult[1].value
     /\ (/\ history'.serverResult # Null
         /\ history'.serverResult[1].again
         /\ history'.answered # history.answered)
          => history'.serverResult[1].value = history.serverResult[1].value]_vars

\* The Remote engine has answered the same page-MaxPage query for the second
\* time, with products.
C19_Witness ==
  /\ history.serverResult # Null
  /\ history.serverResult[1].again
  /\ history.serverResult[1].args.pageNumber = MaxPage
  /\ history.serverResult[1].value.products # <<>>

\* C20: on the In-Memory engine applyFiltersAndSearch, applyFilters, search
\* and paginate leave the cached products as they are and send nothing to
\* the data source; the cached products change only when the response to a
\* getProducts call of that engine arrives, to the collection it carries.
C20_WorkingSetFrame ==
  [][/\ (/\ history'.issued = history.issued + 1
         /\ history'.received[1].engine = "client"
         /\ history'.received[1].op \in
              {"applyFiltersAndSearch", "applyFilters", "search", "paginate"}) =>
          /\ clientSide'.products = clientSide.products
          /\ net' = net
     /\ clientSide'.products # clientSide.products =>
          \E m \in net \ net' :
            /\ m.stage = "response" /\ m.url = "products"
            /\ m.call = EngineCall("client", "getProducts", Null)
            /\ clientSide'.products = m.response.products]_vars

\* search("phone") on the loaded In-Memory engine: fewer filteredProducts,
\* the products as loaded, nothing in flight.
C20_Witness ==
  /\ history.received = Some(EngineCall("client", "search",
                                        [term |-> <<"p", "h", "o", "n", "e">>]))
  /\ clientSide.products = collection
  /\ Len(clientSide.filteredProducts) < Len(clientSide.products)
  /\ net = {}

\* C21: the full collection is fetched only on behalf of the In-Memory
\* engine: no GET /products request comes from a getProducts call made on the
\* Remote engine, so initialisation with count > threshold fetches nothing.
C21_NoFetchAllWhenRemote ==
  \A m \in net : m.url = "products" => m.call.engine = "client"

\* The keys of the switch in applyFilters.
evaluatorKeys == {"multiselect", "range"}

\* C22: a filter whose key is unknown to the evaluator (and that selects or
\* bounds something) matches no product: applyFiltersAndSearch of the
\* In-Memory engine with such a filter returns no items and totalItems = 0.
C22_UnknownKeyMatchesNothing ==
  (/\ history.clientResult # Null
   /\ \E k \in 1..Len(history.clientResult[1].args.filters) :
        LET filter == history.clientResult[1].args.filters[k]
        IN  /\ filter.key \notin evaluatorKeys
            /\ ~vacuousMultiselect(filter)
            /\ ~vacuousRange(filter)) =>
    /\ history.clientResult[1].value.totalItems = 0
    /\ history.clientResult[1].value.products = <<>>

\* C23: applyFiltersAndSearch with pageSize = 0 is rejected: no request
\* reaches the data source and no page is returned to the caller.
C23_ZeroPageSizeRejected ==
  [][(/\ history'.issued = history.issued + 1
      /\ history'.lastCall[1].op = "applyFiltersAndSearch"
      /\ history'.lastCall[1].args.pageSize = 0) =>
       /\ net' = net
       /\ history'.answered = history.answered]_vars

\* C24: switchStrategy does not replay the last QueryState: when its count
\* response is processed nothing is sent to the data source, and the displayed
\* items, totalItems, both engines' cached products and stored query
\* parameters stay as they were; only the active engine may change.
C24_SwitchDoesNotReplay ==
  [][\A m \in net :
       (m.tap /\ m.stage = "response" /\ m \notin net') =>
         /\ net' = net \ {m}
         /\ clientSide' = clientSide
         /\ serverSide' = serverSide
         /\ component' = component]_vars

\* The In-Memory engine had loaded 101 products and answered a query when the
\* count response of a later switchStrategy selected the Remote engine.
C24_Witness ==
  /\ history.emitted # Null
  /\ history.emitted[1].call.op = "getProductsCount"
  /\ history.lastCount = Some(MaxProducts)
  /\ strategy = "server"
  /\ clientSide.products = collection
  /\ history.clientResult # Null
  /\ history.clientResult[1].value.products # <<>>

\* The engine the count of the collection selects.
selectedEngine == IF Len(collection) > treshold THEN "server" ELSE "client"

\* C25: initialisation calls switchStrategy first; getProducts is called only
\* when the count response has been processed and goes to the engine selected;
\* when the products arrive the component stores the fetched list, the distinct
\* categories in first-occurrence order and the number of products, and then
\* issues applyFiltersAndSearch with the current QueryState.
C25_InitialisationOrder ==
  [][/\ (component.pc = "constructed" /\ component'.pc # "constructed") =>
          /\ component'.pc = "awaitCount"
          /\ history'.lastCall[1].op = "switchStrategy"
          /\ \A m \in net' : m.url = "count"
     /\ (component'.pc = "awaitCount") =>
          \A m \in net' : m.url # "products"
     /\ (component.pc = "awaitCount" /\ component'.pc # "awaitCount") =>
          /\ component'.pc = "awaitProducts"
          /\ history'.lastCount = Some(Len(collection))
          /\ strategy' = selectedEngine
          /\ history'.lastCall[1].op = "getProducts"
          /\ history'.received[1].engine = selectedEngine
          /\ \E m \in net' \ net : m.url = "products" /\ m.call.engine = selectedEngine
     /\ (component.pc = "awaitProducts" /\ component'.pc # "awaitProducts") =>
          /\ component'.pc = "ready"
          /\ component'.products = collection
          /\ component'.categories = <<Electronics, Fashion>>
          /\ history'.lastCall[1].op = "applyFiltersAndSearch"
          /\ history'.lastCall[1].args =
               QueryState(component.searchTerm, componentFilters(component),
                          component.currentPage, component.pageSize)
          /\ history'.received[1].engine = selectedEngine
          /\ component'.totalItems =
               IF selectedEngine = "server" THEN Len(collection)
               ELSE history'.clientResult[1].value.totalItems
          /\ (selectedEngine = "client" /\ component.searchTerm = <<>>) =>
               component'.totalItems = Len(collection)]_vars

\* The component is initialised in Remote mode: the third call it made is the
\* applyFiltersAndSearch that followed the arrival of the 101 products.
C25_Witness ==
  /\ component.pc = "ready"
  /\ strategy = "server"
  /\ component.products = collection
  /\ component.categories = <<Electronics, Fashion>>
  /\ component.totalItems = MaxProducts
  /\ history.issued = 3
  /\ history.lastCall[1].op = "applyFiltersAndSearch"

\* C26: totalPages is the ceiling of totalItems / pageSize for every
\* totalItems >= 0 and pageSize >= 1 (the least number of pages of pageSize
\* items that hold totalItems items), and 0 when totalItems = 0.
C26_TotalPages ==
  LET totalItems == paginationComponent.totalItems
      pageSize == paginationComponent.pageSize
      pages == totalPages(totalItems, pageSize)
  IN  (totalItems >= 0 /\ pageSize >= 1) =>
        /\ pages * pageSize >= totalItems
        /\ (pages - 1) * pageSize < totalItems \/ totalItems = 0
        /\ totalItems = 0 => pages = 0

\* onNext went to the second page of 6 items shown 5 to a page.
C26_Witness ==
  /\ paginationComponent.totalItems = 6
  /\ paginationComponent.pageSize = 5
  /\ paginationComponent.pageChange # Null
  /\ paginationComponent.pageChange[1] = [by |-> "onNext", page |-> 2, totalPages |-> 2]

\* C27: every page number emitted through pageChange by onPrevious, onNext,
\* onPageInputChange or goToPage lies in [1, totalPages].
C27_EmittedPageInRange ==
  (/\ paginationComponent.pageChange # Null
   /\ paginationComponent.pageChange[1].by \in
        {"onPrevious", "onNext", "onPageInputChange", "goToPage"}) =>
    /\ paginationComponent.pageChange[1].page >= 1
    /\ paginationComponent.pageChange[1].page <= paginationComponent.pageChange[1].totalPages

allSelected(map) == \A k \in 1..Len(map) : map[k][2]

\* C28: toggleSelectAll deselects every option when all options are selected,
\* and selects every option when not all are, whatever toggles and option
\* changes came before.
C28_ToggleSelectAll ==
  filterComponent.lastToggle # Null =>
    LET before == filterComponent.lastToggle[1].before
        after == filterComponent.lastToggle[1].after
    IN  /\ allSelected(before) => ~someSelected(after)
        /\ ~allSelected(before) => allSelected(after)

\* This step hands the engine a call of op.
engineGets(engine, op) ==
  /\ history'.issued = history.issued + 1
  /\ history'.received[1].engine = engine
  /\ history'.received[1].op = op

\* This step emits the value of a paginate call made on engine.
paginateEmitted(engine) ==
  /\ history'.emitted # history.emitted
  /\ history'.emitted[1].call.engine = engine
  /\ history'.emitted[1].call.op = "paginate"

\* C29: on either engine, once applyFiltersAndSearch(t, F, p0, s0) has
\* completed there, paginate(p, s) returns the items applyFiltersAndSearch(t,
\* F, p, s) would return, paginate calls in between or not.  In-Memory: the
\* value is the page of the products filtered by t and F.  Remote: the request
\* is the one applyFiltersAndSearch(t, F, p, s) posts, and the value is the
\* products the server finds for it.
C29_PaginateAsApply ==
  [][/\ (paginateEmitted("client") /\ history.clientResult # Null) =>
          LET q == history.clientResult[1].args
              call == history'.emitted[1].call
          IN  history'.emitted[1].value =
                inMemoryResult(clientSide.products,
                               QueryState(q.searchTerm, q.filters,
                                          call.args.page, call.args.pageSize),
                               q.filters).products
     /\ (/\ engineGets("server", "paginate")
         /\ history.serverResult # Null
         /\ serverSide.currentSearchTerm = history.serverResult[1].args.searchTerm
         /\ serverSide.currentFilters = history.serverResult[1].args.filters) =>
          LET q == history.serverResult[1].args
              call == history'.received[1]
          IN  \E m \in net' \ net :
                /\ m.url = "filter"
                /\ m.body = buildPayload(q.searchTerm, q.filters,
                                         call.args.page, call.args.pageSize)
     /\ paginateEmitted("server") =>
          \E m \in net \ net' :
            /\ m.id = history'.emitted[1].id
            /\ history'.emitted[1].value =
                 filterProducts(collection, m.body, strictQuery).products]_vars

\* The In-Memory engine had searched "phone" over 100 products when it was
\* asked for the second page, and handed on the matches 11 to 20.
C29_Witness ==
  /\ history.emitted # Null
  /\ history.emitted[1].call.engine = "client"
  /\ history.emitted[1].call.op = "paginate"
  /\ history.emitted[1].call.args.page = 2
  /\ history.clientResult # Null
  /\ history.clientResult[1].args.searchTerm = <<"p", "h", "o", "n", "e">>
  /\ Len(history.emitted[1].value) = 10
  /\ \A k \in 1..10 :
       containsTerm[<<"p", "h", "o", "n", "e">>]
                   [((history.emitted[1].value[k] - 1) % Len(PRODUCTS)) + 1]

\* C30: the Remote engine's paginate(page, pageSize) posts the search term and
\* filters the engine stored, with the page and page size it was given, and
\* stores these two; the stored term and filters are those of the latest
\* applyFiltersAndSearch made on the Remote engine (the empty term and no
\* filters before any), whatever was applied through the In-Memory engine.
C30_RemotePaginateUsesStored ==
  [][/\ history.issued = 0 =>
          /\ serverSide.currentSearchTerm = <<>>
          /\ serverSide.currentFilters = <<>>
     /\ engineGets("server", "paginate") =>
          LET args == history'.received[1].args
          IN  /\ \E m \in net' \ net :
                   /\ m.url = "filter"
                   /\ m.body.searchTerm = serverSide.currentSearchTerm
                   /\ m.body.filters.filters =
                        [k \in 1..Len(serverSide.currentFilters) |->
                           payloadFilter(serverSide.currentFilters[k])]
                   /\ m.body.currentPage = args.page
                   /\ m.body.pageSize = args.pageSize
              /\ serverSide' = [serverSide EXCEPT !.currentPage = args.page,
                                                  !.pageSize = args.pageSize]
     /\ engineGets("server", "applyFiltersAndSearch") =>
          /\ serverSide'.currentSearchTerm = history'.received[1].args.searchTerm
          /\ serverSide'.currentFilters = history'.received[1].args.filters
     /\ ~engineGets("server", "applyFiltersAndSearch") =>
          /\ serverSide'.currentSearchTerm = serverSide.currentSearchTerm
          /\ serverSide'.currentFilters = serverSide.currentFilters]_vars

\* "phone" with a category filter was applied through the In-Memory engine,
\* the Remote engine was selected, and its paginate posted the empty term and
\* no filters.
C30_Witness ==
  /\ history.clientResult # Null
  /\ history.clientResult[1].args.searchTerm = <<"p", "h", "o", "n", "e">>
  /\ history.clientResult[1].args.filters # <<>>
  /\ history.serverResult = Null
  /\ \E m \in net :
       /\ m.call.engine = "server"
       /\ m.call.op = "paginate"
       /\ m.body.searchTerm = <<>>
       /\ m.body.filters.filters = <<>>
       /\ serverSide.currentPage = m.body.currentPage

====
